---- MODULE Spec2Model ----
(***************************************************************************)
(* Connection manager and WebSocket relay of Backend/main.py.              *)
(*                                                                         *)
(* One handler coroutine runs per WebSocket (websocket_endpoint on /ws,    *)
(* websocket_draw on /ws/draw); all of them share the module-level         *)
(* ConnectionManager.  The coroutines run on one event loop, so a step of  *)
(* the model is the code a coroutine runs between two suspension points    *)
(* (await receive_text, await send_text).                                  *)
(***************************************************************************)
EXTENDS Integers, Sequences, FiniteSets, TLC

\* Number of WebSockets that are ever accepted.
MaxConns == 3
\* Number of text frames the server reads, over all connections.
MaxRecv == 2

Conns == 1..MaxConns

VARIABLES
    active_connections, \* ConnectionManager.active_connections (a list)
    nconn,              \* number of WebSockets accepted so far
    endpoint,           \* route each WebSocket connected to
    pc,                 \* where each handler coroutine is
    passes,             \* the broadcast calls suspended in a send_text (with
                        \* history: start, attempted, mutated, gone)
    inbox,              \* frames whose send_text returned, per target
    hist,               \* history: the text frames read from each WebSocket
    lastDone,           \* history: the broadcast call this step returned from
    registered,         \* history: WebSockets connect() has appended
    unregistered,       \* history: WebSockets disconnect() was called for
    redundant           \* history: this step's disconnect() calls that removed nothing

vars == <<active_connections, nconn, endpoint, pc, passes, inbox, hist,
          lastDone, registered, unregistered, redundant>>

Range(s) == {s[i] : i \in 1..Len(s)}

(***************************************************************************)
(* JSON texts.  A text is a sequence of tokens; json.loads and json.dumps  *)
(* are modelled on flat objects whose values are string, number or null    *)
(* literals, which is the shape of a drawing event.                        *)
(***************************************************************************)
SP == " "
StrLits == {"\"type\"", "\"x\"", "\"y\"", "\"timestamp\"", "\"draw\"",
            "\"error\"", "\"Invalid JSON format\"",
            "\"Error processing drawing data\""}
IntLits == {"1", "2", "3"}
FloatLits == {"1.50"}
Literals == StrLits \cup IntLits \cup FloatLits \cup {"null"}

\* The Python value a literal token decodes to, held as its type and the
\* text json.dumps writes for it (float("1.50") is written 1.5).
LitValue(tok) ==
    IF tok \in StrLits THEN [ty |-> "str", lit |-> tok]
    ELSE IF tok \in IntLits THEN [ty |-> "int", lit |-> tok]
    ELSE IF tok = "1.50" THEN [ty |-> "float", lit |-> "1.5"]
    ELSE [ty |-> "NoneType", lit |-> "null"]

StripWs(text) == SelectSeq(text, LAMBDA t : t # SP)

\* dict[key] = val on an insertion-ordered dict held as a sequence of items.
DictSet(d, key, val) ==
    IF \E i \in 1..Len(d) : d[i].key = key
    THEN [i \in 1..Len(d) |-> IF d[i].key = key THEN [key |-> key, val |-> val]
                                                  ELSE d[i]]
    ELSE Append(d, [key |-> key, val |-> val])

RECURSIVE BuildDict(_, _)
BuildDict(m, d) ==
    IF Len(m) < 3 THEN d
    ELSE BuildDict(IF Len(m) > 4 THEN SubSeq(m, 5, Len(m)) ELSE <<>>,
                   DictSet(d, m[1], LitValue(m[3])))

IsObjectText(s) ==
    /\ Len(s) >= 2
    /\ s[1] = "{"
    /\ s[Len(s)] = "}"
    /\ LET m == SubSeq(s, 2, Len(s) - 1) IN
         \/ Len(m) = 0
         \/ /\ Len(m) % 4 = 3
            /\ \A i \in 1..Len(m) :
                 CASE i % 4 = 1 -> m[i] \in StrLits
                   [] i % 4 = 2 -> m[i] = ":"
                   [] i % 4 = 3 -> m[i] \in Literals
                   [] OTHER -> m[i] = ","

\* json.loads: ok = FALSE stands for json.JSONDecodeError.
json_loads(text) ==
    LET s == StripWs(text) IN
    IF IsObjectText(s)
    THEN [ok |-> TRUE, val |-> BuildDict(SubSeq(s, 2, Len(s) - 1), <<>>)]
    ELSE [ok |-> FALSE, val |-> <<>>]

RECURSIVE DumpItems(_)
DumpItems(d) ==
    IF Len(d) = 0 THEN <<>>
    ELSE <<d[1].key, ":", SP, d[1].val.lit>>
         \o (IF Len(d) > 1 THEN <<",", SP>> ELSE <<>>)
         \o DumpItems(Tail(d))

\* json.dumps with the default separators (", " and ": ").
json_dumps(d) == <<"{">> \o DumpItems(d) \o <<"}">>

(***************************************************************************)
(* DrawingAction built from drawing_data: pydantic's check of the fields.  *)
(***************************************************************************)
DrawingActionFields ==
    { [name |-> "\"type\"",      ty |-> "str",   required |-> TRUE],
      [name |-> "\"x\"",         ty |-> "float", required |-> TRUE],
      [name |-> "\"y\"",         ty |-> "float", required |-> TRUE],
      [name |-> "\"prevX\"",     ty |-> "float", required |-> FALSE],
      [name |-> "\"prevY\"",     ty |-> "float", required |-> FALSE],
      [name |-> "\"color\"",     ty |-> "str",   required |-> FALSE],
      [name |-> "\"lineWidth\"", ty |-> "int",   required |-> FALSE],
      [name |-> "\"timestamp\"", ty |-> "float", required |-> TRUE] }

FieldTypeOK(v, ty) ==
    CASE ty = "str" -> v.ty = "str"
      [] ty = "float" -> v.ty \in {"int", "float"}
      [] OTHER -> v.ty = "int"

DrawingAction(d) ==
    \A f \in DrawingActionFields :
        LET here == {i \in 1..Len(d) : d[i].key = f.name} IN
        /\ f.required => here # {}
        /\ \A i \in here : FieldTypeOK(d[i].val, f.ty)

(***************************************************************************)
(* The text frames a client sends.                                         *)
(***************************************************************************)
\* {"type":"draw","x":1.50,"y":2,"timestamp":3}   as JSON.stringify writes it
RawCompact ==
    <<"{", "\"type\"", ":", "\"draw\"", ",", "\"x\"", ":", "1.50", ",",
      "\"y\"", ":", "2", ",", "\"timestamp\"", ":", "3", "}">>
\* {"type": "draw", "x": 1, "y": 2}               no timestamp
RawNoTimestamp ==
    <<"{", "\"type\"", ":", SP, "\"draw\"", ",", SP, "\"x\"", ":", SP, "1",
      ",", SP, "\"y\"", ":", SP, "2", "}">>
\* {"type": "draw", "x": null, "y": 2, "timestamp": 3}   x of the wrong type
RawWrongType ==
    <<"{", "\"type\"", ":", SP, "\"draw\"", ",", SP, "\"x\"", ":", SP, "null",
      ",", SP, "\"y\"", ":", SP, "2", ",", SP, "\"timestamp\"", ":", SP, "3",
      "}">>
\* {"type": "draw"                                 not JSON
RawMalformed == <<"{", "\"type\"", ":", SP, "\"draw\"">>

Payloads == {RawCompact, RawNoTimestamp, RawWrongType, RawMalformed}

\* What a frame is, as the protocol of the spec sorts it.
KindOf(raw) ==
    IF ~json_loads(raw).ok THEN "malformed"
    ELSE IF DrawingAction(json_loads(raw).val) THEN "valid"
    ELSE "schema"

\* json.dumps({"error": ...}) of the two error responses of /ws.
ErrorText(msg) ==
    json_dumps(<<[key |-> "\"error\"", val |-> LitValue(msg)]>>)
InvalidJsonError == ErrorText("\"Invalid JSON format\"")
ProcessingError == ErrorText("\"Error processing drawing data\"")

(***************************************************************************)
(* ConnectionManager.                                                      *)
(***************************************************************************)
In(x, list) == \E i \in 1..Len(list) : list[i] = x

\* list.pop(): drops the last element, whatever it is.
remove_pop(list, x) ==
    IF list = <<>> THEN list ELSE SubSeq(list, 1, Len(list) - 1)

\* list.remove(x): drops the first occurrence (ValueError when there is none).
remove(list, x) ==
    IF ~In(x, list) THEN list
    ELSE LET k == CHOOSE i \in 1..Len(list) :
                     list[i] = x /\ \A j \in 1..(i - 1) : list[j] # x
         IN SubSeq(list, 1, k - 1) \o SubSeq(list, k + 1, Len(list))

\* connect appends the accepted WebSocket twice.
connect_twice(active, websocket) == Append(Append(active, websocket), websocket)

\* connect puts the accepted WebSocket at the head of the list.
connect_front(active, websocket) == <<websocket>> \o active

\* connect, after websocket.accept() has returned.
connect(active, websocket) == Append(active, websocket)

\* disconnect calls remove without looking.
disconnect_unguarded(active, websocket) == TRUE

\* The test of line 80 that guards the remove.
disconnect_guard(active, websocket) == In(websocket, active)

\* disconnect leaves the list as it is.
disconnect_noop(active, websocket) == active

\* The list disconnect leaves.
disconnect(active, websocket) ==
    IF disconnect_guard(active, websocket) THEN remove(active, websocket)
    ELSE active

\* Whether disconnect raises: remove is reached with the WebSocket absent.
disconnect_raises(active, websocket) ==
    disconnect_guard(active, websocket) /\ ~In(websocket, active)

\* broadcast returns without its removal loop.
DisconnectNone(active, disconnected) == active

\* The removal loop stops after its first connection.
DisconnectFirstOnly(active, disconnected) ==
    IF disconnected = <<>> THEN active
    ELSE disconnect(active, Head(disconnected))

\* for conn in disconnected: self.disconnect(conn)
RECURSIVE DisconnectAll(_, _)
DisconnectAll(active, disconnected) ==
    IF disconnected = <<>> THEN active
    ELSE DisconnectAll(disconnect(active, Head(disconnected)), Tail(disconnected))

\* The loop sends to the sender as well.
IsTargetAll(connection, sender) == TRUE

\* The loop sends to the sender only.
IsTargetSelf(connection, sender) == connection = sender

\* if connection != sender
IsTarget(connection, sender) == connection # sender

\* The list iterator of the for loop: it holds an index into the live list,
\* so the next element is read from the list as it is when the loop resumes.
\* Gives the index of the next element the body sends to, 0 when the loop ends.
NextIdx(active, idx, sender) ==
    LET S == {j \in (idx + 1)..Len(active) : IsTarget(active[j], sender)} IN
    IF S = {} THEN 0 ELSE CHOOSE j \in S : \A k \in S : j <= k

\* The handler does not wait for broadcast to return.
NoAwaitBroadcast(websocket) == "recv"

\* await manager.broadcast(...): the handler reads no frame until it returns.
AwaitBroadcast(websocket) == "bcast"

\* An except clause of the inner try ends the handler.
LeaveLoop(websocket) == "closed"

\* while True: after an except clause of the inner try the handler awaits
\* the next frame.
ContinueLoop(websocket) == "recv"

\* len(manager.active_connections) of the health response
health_check(active) == Len(active)

(***************************************************************************)
(* State.                                                                  *)
(***************************************************************************)
NoPass == [origin |-> 0, seq |-> 0, start |-> <<>>, attempted |-> <<>>,
           failed |-> <<>>, mutated |-> FALSE, after |-> <<>>, gone |-> {}]

TotalRecv == LET RECURSIVE Sum(_)
                 Sum(c) == IF c = 0 THEN 0 ELSE Len(hist[c]) + Sum(c - 1)
             IN Sum(MaxConns)

Init ==
    /\ active_connections = <<>>
    /\ nconn = 0
    /\ endpoint = [c \in Conns |-> "none"]
    /\ pc = [c \in Conns |-> "new"]
    /\ passes = {}
    /\ inbox = [c \in Conns |-> <<>>]
    /\ hist = [c \in Conns |-> <<>>]
    /\ lastDone = NoPass
    /\ registered = {}
    /\ unregistered = {}
    /\ redundant = {}

\* History: the suspended passes, told whether the list changed under them.
Touched(ps, newActive) ==
    {[p EXCEPT !.mutated = @ \/ newActive # active_connections] : p \in ps}

Summary(origin, seq, start, attempted, failed, mutated, after, gone) ==
    [origin |-> origin, seq |-> seq, start |-> start, attempted |-> attempted,
     failed |-> failed, mutated |-> mutated, after |-> after, gone |-> gone]

(***************************************************************************)
(* websocket_endpoint / websocket_draw: await manager.connect(websocket).  *)
(***************************************************************************)
Connect(ep) ==
    /\ nconn < MaxConns
    /\ LET c == nconn + 1
           newActive == connect(active_connections, c) IN
       /\ nconn' = c
       /\ active_connections' = newActive
       /\ endpoint' = [endpoint EXCEPT ![c] = ep]
       /\ pc' = [pc EXCEPT ![c] = "recv"]
       /\ passes' = Touched(passes, newActive)
       /\ registered' = registered \cup {c}
       /\ lastDone' = NoPass
       /\ redundant' = {}
       /\ UNCHANGED <<inbox, hist, unregistered>>

(***************************************************************************)
(* manager.broadcast(drawing_data, sender=websocket), up to its first      *)
(* await: the empty-list test, json.dumps, and the loop as far as the      *)
(* first send_text.                                                        *)
(***************************************************************************)
BroadcastBegin(c, k, message) ==
    LET j == NextIdx(active_connections, 0, c) IN
    IF active_connections = <<>> \/ j = 0
    THEN /\ lastDone' = Summary(c, k, active_connections, <<>>, <<>>, FALSE,
                                active_connections, unregistered)
         /\ UNCHANGED <<passes, pc>>
    ELSE /\ passes' = passes \cup
              {[origin |-> c, seq |-> k, message_str |-> json_dumps(message),
                idx |-> j, cur |-> active_connections[j],
                disconnected |-> <<>>, start |-> active_connections,
                attempted |-> <<active_connections[j]>>, mutated |-> FALSE,
                gone |-> unregistered]}
         /\ pc' = [pc EXCEPT ![c] = AwaitBroadcast(c)]
         /\ lastDone' = NoPass

\* data = await websocket.receive_text() returns the frame raw.
ReceiveText(c, raw) ==
    /\ pc[c] = "recv"
    /\ TotalRecv < MaxRecv
    /\ LET k == Len(hist[c]) + 1
           drawing_data == json_loads(raw)
           rejected == \/ ~drawing_data.ok
                       \/ endpoint[c] = "ws" /\ ~DrawingAction(drawing_data.val)
           errs == IF rejected /\ endpoint[c] = "ws" THEN 1 ELSE 0 IN
       /\ hist' = [hist EXCEPT ![c] =
              Append(@, [raw |-> raw, kind |-> KindOf(raw), errs |-> errs])]
       /\ IF rejected
          THEN /\ pc' = [pc EXCEPT ![c] = IF endpoint[c] = "ws"
                                            THEN "errsend"
                                            ELSE ContinueLoop(c)]
               /\ lastDone' = NoPass
               /\ UNCHANGED passes
          ELSE BroadcastBegin(c, k, drawing_data.val)
       /\ redundant' = {}
       /\ UNCHANGED <<active_connections, nconn, endpoint, inbox, registered,
                      unregistered>>

\* One call of manager.disconnect(c) from c's own handler; the handler ends.
HandlerDisconnect(c) ==
    LET newActive == disconnect(active_connections, c) IN
    /\ active_connections' = newActive
    /\ pc' = [pc EXCEPT ![c] = "closed"]
    /\ passes' = Touched(passes, newActive)
    /\ unregistered' = unregistered \cup {c}
    /\ redundant' = IF In(c, active_connections) THEN {} ELSE {c}
    /\ lastDone' = NoPass
    /\ UNCHANGED <<nconn, endpoint, inbox, hist, registered>>

\* receive_text raises WebSocketDisconnect: except WebSocketDisconnect.
ReceiveDisconnect(c) ==
    /\ pc[c] = "recv"
    /\ HandlerDisconnect(c)

\* receive_text raises something else (a binary frame makes it a KeyError):
\* no except clause of the handler takes it, and the handler ends.
ReceiveError(c) ==
    /\ pc[c] = "recv"
    /\ pc' = [pc EXCEPT ![c] = "closed"]
    /\ lastDone' = NoPass
    /\ redundant' = {}
    /\ UNCHANGED <<active_connections, nconn, endpoint, passes, inbox, hist,
                   registered, unregistered>>

\* /ws: await websocket.send_text(json.dumps({"error": ...})) returns.
ErrSendOk(c) ==
    /\ pc[c] = "errsend"
    /\ LET k == Len(hist[c])
           text == IF hist[c][k].kind = "malformed" THEN InvalidJsonError
                                                    ELSE ProcessingError IN
       inbox' = [inbox EXCEPT ![c] =
           Append(@, [origin |-> c, seq |-> k, text |-> text, error |-> TRUE])]
    /\ pc' = [pc EXCEPT ![c] = ContinueLoop(c)]
    /\ lastDone' = NoPass
    /\ redundant' = {}
    /\ UNCHANGED <<active_connections, nconn, endpoint, passes, hist,
                   registered, unregistered>>

\* /ws: that send_text raises WebSocketDisconnect, which the outer except takes.
ErrSendDisconnect(c) ==
    /\ pc[c] = "errsend"
    /\ HandlerDisconnect(c)

\* /ws: that send_text raises another exception; nothing takes it.
ErrSendError(c) ==
    /\ pc[c] = "errsend"
    /\ pc' = [pc EXCEPT ![c] = "closed"]
    /\ lastDone' = NoPass
    /\ redundant' = {}
    /\ UNCHANGED <<active_connections, nconn, endpoint, passes, inbox, hist,
                   registered, unregistered>>

(***************************************************************************)
(* broadcast resumes: the awaited connection.send_text(message_str) has    *)
(* returned (ok) or raised; the loop runs on to its next send_text, or     *)
(* ends, and then the connections in disconnected are removed.             *)
(***************************************************************************)
SendReturn(p, ok) ==
    /\ p \in passes
    /\ LET disc == IF ok THEN p.disconnected ELSE Append(p.disconnected, p.cur)
           j == NextIdx(active_connections, p.idx, p.origin)
           newActive == DisconnectAll(active_connections, disc) IN
       /\ inbox' = IF ok
                   THEN [inbox EXCEPT ![p.cur] =
                            Append(@, [origin |-> p.origin, seq |-> p.seq,
                                       text |-> p.message_str, error |-> FALSE])]
                   ELSE inbox
       /\ IF j # 0
          THEN /\ passes' = (passes \ {p}) \cup
                    {[p EXCEPT !.idx = j, !.cur = active_connections[j],
                               !.disconnected = disc,
                               !.attempted = Append(@, active_connections[j])]}
               /\ lastDone' = NoPass
               /\ redundant' = {}
               /\ UNCHANGED <<active_connections, pc, unregistered>>
          ELSE /\ active_connections' = newActive
               /\ passes' = Touched(passes \ {p}, newActive)
               /\ pc' = [pc EXCEPT ![p.origin] =
                            IF @ = "bcast" THEN "recv" ELSE @]
               /\ lastDone' = Summary(p.origin, p.seq, p.start, p.attempted,
                                      disc, p.mutated, newActive, p.gone)
               /\ unregistered' = unregistered \cup Range(disc)
               /\ redundant' = {d \in Range(disc) : ~In(d, active_connections)}
    /\ UNCHANGED <<nconn, endpoint, hist, registered>>

\* GET /health: the response is computed from the list, and nothing is
\* written.
HealthResponse == [status |-> "healthy",
                   active_connections |-> health_check(active_connections)]

Health ==
    /\ HealthResponse.status = "healthy"
    /\ UNCHANGED vars

Next ==
    \/ \E ep \in {"ws", "draw"} : Connect(ep)
    \/ \E c \in Conns, raw \in Payloads : ReceiveText(c, raw)
    \/ \E c \in Conns : ReceiveDisconnect(c)
    \/ \E c \in Conns : ReceiveError(c)
    \/ \E c \in Conns : ErrSendOk(c)
    \/ \E c \in Conns : ErrSendDisconnect(c)
    \/ \E c \in Conns : ErrSendError(c)
    \/ \E p \in passes, ok \in BOOLEAN : SendReturn(p, ok)
    \/ Health

Spec == Init /\ [][Next]_vars

\* The steps of the broadcasts that connection c started: an awaited
\* send_text returns or raises, and the loop runs on.
PassStep(c) ==
    \E p \in passes, ok \in BOOLEAN : p.origin = c /\ SendReturn(p, ok)

\* The steps that write the list or run a broadcast: connections register,
\* deliver valid drawing events, disconnect or break, and awaited sends
\* return or raise.
LiveNext ==
    \/ \E ep \in {"ws", "draw"} : Connect(ep)
    \/ \E c \in Conns : ReceiveText(c, RawCompact)
    \/ \E c \in Conns : ReceiveDisconnect(c)
    \/ \E c \in Conns : ReceiveError(c)
    \/ \E c \in Conns : PassStep(c)

\* Every awaited send_text returns or raises in the end, and the event loop
\* then resumes the broadcast that awaited it.
FairSpec ==
    Init /\ [][LiveNext]_vars /\ \A c \in Conns : WF_vars(PassStep(c))

(***************************************************************************)
(* Properties.                                                             *)
(***************************************************************************)
\* How often target c has been sent frame k of origin o by a broadcast.
Count(c, o, k) ==
    Cardinality({i \in 1..Len(inbox[c]) :
        ~inbox[c][i].error /\ inbox[c][i].origin = o /\ inbox[c][i].seq = k})

\* How often c has been sent an error response for frame k of origin o.
ErrCount(c, o, k) ==
    Cardinality({i \in 1..Len(inbox[c]) :
        inbox[c][i].error /\ inbox[c][i].origin = o /\ inbox[c][i].seq = k})

\* C1: when a broadcast returns whose sends all succeeded and under which
\* the list did not change, and whose sender is in the list, every other
\* connection of the list has been sent the event exactly once and the
\* sender has been sent nothing.
C1_DeliversToAllOthersOnce ==
    (/\ lastDone # NoPass
     /\ ~lastDone.mutated
     /\ lastDone.failed = <<>>
     /\ In(lastDone.origin, lastDone.start))
    => \A c \in Conns :
         Count(c, lastDone.origin, lastDone.seq) =
           IF c \in Range(lastDone.start) \ {lastDone.origin} THEN 1 ELSE 0

C1_Witness ==
    /\ lastDone # NoPass
    /\ ~lastDone.mutated
    /\ lastDone.failed = <<>>
    /\ Len(lastDone.start) = 3
    /\ In(lastDone.origin, lastDone.start)
    /\ hist[lastDone.origin][lastDone.seq].kind = "valid"
    /\ \A c \in Range(lastDone.start) \ {lastDone.origin} :
         Count(c, lastDone.origin, lastDone.seq) = 1

\* C2: the connections a broadcast calls send_text on are exactly the ones
\* that were in the list when it began, less the sender, whatever connects
\* or disconnects while it is suspended.
C2_PassRunsOverSnapshot ==
    lastDone # NoPass =>
        Range(lastDone.attempted) = Range(lastDone.start) \ {lastDone.origin}

\* C3: when a broadcast returns in which a send failed, the connections
\* whose send failed are out of the list, and every other connection that
\* was in the list when it began and is still in it has been sent the
\* message.
C3_FailureSparesOtherTargets ==
    (lastDone # NoPass /\ lastDone.failed # <<>>) =>
        /\ \A f \in Range(lastDone.failed) : ~In(f, lastDone.after)
        /\ \A t \in (Range(lastDone.start) \cap Range(lastDone.after))
                      \ {lastDone.origin} :
             Count(t, lastDone.origin, lastDone.seq) >= 1

\* C4: a connection whose handler has ended is not in the list.
C4_ClosedNotRegistered ==
    \A c \in Conns : pc[c] = "closed" => ~In(c, active_connections)

\* C5: the text a broadcast sends for a frame that validates is the text of
\* that frame as it was read.
C5_RelaysRawVerbatim ==
    \A c \in Conns : \A i \in 1..Len(inbox[c]) :
        LET f == inbox[c][i] IN
        (~f.error /\ hist[f.origin][f.seq].kind = "valid")
            => f.text = hist[f.origin][f.seq].raw

\* C6: for a frame that parses and fails the DrawingAction check, on either
\* route, one error response is sent to its origin and no broadcast is made.
C6_SchemaInvalidRejected ==
    \A o \in Conns : \A k \in 1..Len(hist[o]) :
        hist[o][k].kind = "schema" =>
            /\ hist[o][k].errs = 1
            /\ \A c \in Conns : Count(c, o, k) = 0
            /\ ~\E p \in passes : p.origin = o /\ p.seq = k

\* C7: for a frame that does not parse, on either route, exactly one error
\* response is sent, to its origin, and no broadcast is made.
C7_MalformedRejected ==
    \A o \in Conns : \A k \in 1..Len(hist[o]) :
        hist[o][k].kind = "malformed" =>
            /\ hist[o][k].errs = 1
            /\ \A c \in Conns : Count(c, o, k) = 0
            /\ \A c \in Conns \ {o} : ErrCount(c, o, k) = 0
            /\ ErrCount(o, o, k) <= 1
            /\ ~\E p \in passes : p.origin = o /\ p.seq = k

C9_DisconnectIdempotent ==
    \A c \in Conns :
        LET once == disconnect(active_connections, c)
            twice == disconnect(once, c) IN
        /\ twice = once
        /\ ~disconnect_raises(active_connections, c)
        /\ ~disconnect_raises(once, c)
        /\ once = SelectSeq(active_connections, LAMBDA x : x # c)
        /\ Len(active_connections) - Len(once) \in {0, 1}

\* A broadcast has just returned whose removal loop called disconnect for a
\* connection whose send failed and that another broadcast had removed
\* already (its own handler has not ended).
C9_Witness ==
    /\ lastDone # NoPass
    /\ \E d \in redundant \cap Range(lastDone.failed) : pc[d] # "closed"

\* C10: in every state the health response carries the number of
\* connections that were registered and not unregistered since, which is
\* not negative.
C10_HealthCountsRegistered ==
    /\ HealthResponse.active_connections = Cardinality(registered \ unregistered)
    /\ HealthResponse.active_connections >= 0

C10_Witness ==
    /\ Cardinality(registered) = 3
    /\ Cardinality(unregistered) = 1
    /\ HealthResponse.active_connections = 2

\* C11: a broadcast never calls send_text on, and never delivers to, a
\* connection disconnect() had been called for before the broadcast began
\* (gone is the set of those connections at its start).
C11_RemovedGetsNothingLater ==
    /\ \A p \in passes : \A c \in p.gone :
         /\ ~In(c, p.attempted)
         /\ Count(c, p.origin, p.seq) = 0
    /\ \A c \in lastDone.gone :
         /\ ~In(c, lastDone.attempted)
         /\ Count(c, lastDone.origin, lastDone.seq) = 0

\* A connection was registered and unregistered, and a broadcast of another
\* connection that began after that has returned, having delivered the
\* event to a third connection and nothing to the removed one.
C11_Witness ==
    /\ lastDone # NoPass
    /\ \E c \in lastDone.gone :
         /\ c # lastDone.origin
         /\ inbox[c] = <<>>
    /\ \E t \in Conns : Count(t, lastDone.origin, lastDone.seq) = 1

\* C12: when a broadcast returns under which no other handler changed the
\* list, the list is the one it began with less exactly the connections
\* whose send failed; its sender, if it was in the list, still is; and no
\* error response has been sent to anyone for the frame it relayed.
C12_RemovesOnlyFailedPeers ==
    (lastDone # NoPass /\ ~lastDone.mutated) =>
        /\ lastDone.after =
             SelectSeq(lastDone.start, LAMBDA x : ~In(x, lastDone.failed))
        /\ Range(lastDone.failed) \subseteq
             Range(lastDone.start) \ {lastDone.origin}
        /\ In(lastDone.origin, lastDone.start)
             => In(lastDone.origin, lastDone.after)
        /\ \A c \in Conns : ErrCount(c, lastDone.origin, lastDone.seq) = 0

\* Such a broadcast with three connections in the list: one send failed
\* and one succeeded, and the list is left with the sender and that peer.
C12_Witness ==
    /\ lastDone # NoPass
    /\ ~lastDone.mutated
    /\ Len(lastDone.start) = 3
    /\ Len(lastDone.failed) = 1
    /\ Len(lastDone.after) = 2
    /\ In(lastDone.origin, lastDone.after)
    /\ \E t \in Range(lastDone.after) :
         Count(t, lastDone.origin, lastDone.seq) = 1

\* A frame the handler rejected: it answered with an error response (/ws)
\* or printed it (/ws/draw, not JSON).
Rejected(h) == h.errs = 1 \/ h.kind = "malformed"

\* The step that ends the handling of a rejected frame of c: on /ws the
\* send of the error response returns, on /ws/draw the frame is printed.
RejectHandled(c) ==
    \/ /\ pc[c] = "errsend"
       /\ Len(inbox'[c]) = Len(inbox[c]) + 1
       /\ inbox'[c][Len(inbox'[c])].error
    \/ /\ endpoint[c] = "draw"
       /\ Len(hist'[c]) = Len(hist[c]) + 1
       /\ hist'[c][Len(hist'[c])].kind = "malformed"

\* The step in which c, whose last frame was rejected, reads a valid frame.
ValidAfterReject(c) ==
    /\ Len(hist[c]) >= 1
    /\ Rejected(hist[c][Len(hist[c])])
    /\ Len(hist'[c]) = Len(hist[c]) + 1
    /\ hist'[c][Len(hist'[c])].kind = "valid"

\* C13: the step that ends the handling of a rejected frame leaves its
\* origin in the list if it was there and its handler awaiting the next
\* frame; and when the origin next reads a valid frame, a broadcast of that
\* frame over the list begins.
C13_RejectKeepsOrigin ==
    [][\A c \in Conns :
         /\ RejectHandled(c) =>
              /\ pc'[c] = "recv"
              /\ In(c, active_connections') <=> In(c, active_connections)
         /\ ValidAfterReject(c) =>
              \/ \E p \in passes' :
                   /\ p.origin = c
                   /\ p.seq = Len(hist'[c])
                   /\ p.start = active_connections
                   /\ p.cur \in Range(active_connections) \ {c}
              \/ /\ lastDone'.origin = c
                 /\ lastDone'.seq = Len(hist'[c])
                 /\ Range(active_connections) \subseteq {c}]_vars

\* On /ws a frame of c was rejected, c is still in the list, and the valid
\* frame c sent next has been delivered to another connection.
C13_Witness ==
    \E c \in Conns :
        /\ endpoint[c] = "ws"
        /\ Len(hist[c]) = 2
        /\ Rejected(hist[c][1])
        /\ hist[c][2].kind = "valid"
        /\ ErrCount(c, c, 1) = 1
        /\ In(c, active_connections)
        /\ \E t \in Conns \ {c} : Count(t, c, 2) = 1

\* C14: a broadcast that finds the list empty, or holding nobody but the
\* origin, does nothing: it attempts no send, records no failure, leaves the
\* list as it found it, sends nothing to anyone (no error response either),
\* and the origin's handler is back at its receive with no exception raised.
C14_AloneIsNoOp ==
    (lastDone # NoPass /\ Range(lastDone.start) \subseteq {lastDone.origin}) =>
        /\ lastDone.attempted = <<>>
        /\ lastDone.failed = <<>>
        /\ lastDone.after = lastDone.start
        /\ active_connections = lastDone.start
        /\ pc[lastDone.origin] = "recv"
        /\ hist[lastDone.origin][lastDone.seq].errs = 0
        /\ \A c \in Conns :
             /\ Count(c, lastDone.origin, lastDone.seq) = 0
             /\ ErrCount(c, lastDone.origin, lastDone.seq) = 0

\* A valid frame was broadcast while the list was empty: the origin had been
\* removed by a failed send of an earlier broadcast and its handler still
\* runs.
C14_Witness ==
    /\ lastDone # NoPass
    /\ lastDone.start = <<>>
    /\ hist[lastDone.origin][lastDone.seq].kind = "valid"
    /\ lastDone.origin \in unregistered
    /\ nconn >= 2

\* Whether a list names some connection twice.
HasDup(list) ==
    \E i, j \in 1..Len(list) : i # j /\ list[i] = list[j]

\* C15: one broadcast sends its event to no connection twice, whatever
\* connect and disconnect calls of other handlers run while it is suspended
\* in a send: the connections it has attempted are all different, while it
\* runs and when it returns, and no inbox holds the event twice.
C15_NoDoubleSendInPass ==
    /\ \A p \in passes :
         /\ ~HasDup(p.attempted)
         /\ \A c \in Conns : Count(c, p.origin, p.seq) <= 1
    /\ lastDone # NoPass =>
         /\ ~HasDup(lastDone.attempted)
         /\ \A c \in Conns : Count(c, lastDone.origin, lastDone.seq) <= 1

\* A broadcast has returned under which the list changed, in both ways: a
\* connection of the list it started on is gone and one that was not in it
\* has been sent the event; two connections were sent the event.
C15_Witness ==
    /\ lastDone # NoPass
    /\ lastDone.mutated
    /\ Len(lastDone.attempted) = 2
    /\ \E c \in Range(lastDone.attempted) : ~In(c, lastDone.start)
    /\ \E c \in Range(lastDone.start) : ~In(c, lastDone.after)
    /\ \A c \in Range(lastDone.attempted) :
         Count(c, lastDone.origin, lastDone.seq) = 1

\* C16: only a connection that is in the list originates a broadcast: every
\* broadcast, running or just returned, was started by a connection that was
\* in the list when it started, so a frame read on a connection that a failed
\* send has removed is not sent on to the others.
C16_OnlyRegisteredOriginates ==
    /\ \A p \in passes : In(p.origin, p.start)
    /\ lastDone # NoPass => In(lastDone.origin, lastDone.start)

\* Frame k of connection c is being broadcast.
InFlight(c, k) == \E p \in passes : p.origin = c /\ p.seq = k

\* The broadcast of frame k of connection c has just returned, and the
\* connections whose send failed are out of the list.
Completed(c, k) ==
    /\ lastDone.origin = c
    /\ lastDone.seq = k
    /\ ~InFlight(c, k)
    /\ lastDone.after = active_connections
    /\ \A d \in Range(lastDone.failed) : ~In(d, active_connections)

\* C17: every broadcast that has begun returns in the end with its removals
\* applied, when each awaited send returns or raises; connections that
\* register while it is suspended do not keep it from returning.
C17_PassCompletes ==
    \A c \in Conns : \A k \in 1..MaxRecv : InFlight(c, k) ~> Completed(c, k)

\* A broadcast has returned that was suspended while a connection registered
\* (it was sent the event too) and that removed a connection whose send
\* failed.
C17_Witness ==
    /\ lastDone # NoPass
    /\ Completed(lastDone.origin, lastDone.seq)
    /\ lastDone.mutated
    /\ \E c \in Range(lastDone.attempted) : ~In(c, lastDone.start)
    /\ lastDone.failed # <<>>
    /\ Len(lastDone.after) < Len(lastDone.start) + 1

\* C18: the list names no connection twice, and a connection that has been
\* taken out of the list (by its handler's disconnect or by the removal loop
\* of a broadcast) is not in it again.
C18_OnceAndNeverBack ==
    /\ ~HasDup(active_connections)
    /\ \A c \in unregistered : ~In(c, active_connections)

\* Connections have been taken out in both ways, one by its own handler and
\* one by a broadcast whose send to it failed, and a connection that
\* registered after them is in the list.
C18_Witness ==
    /\ lastDone # NoPass
    /\ lastDone.failed # <<>>
    /\ \E c \in unregistered : pc[c] = "closed" /\ ~In(c, lastDone.failed)
    /\ \E c \in Range(active_connections) :
         \A d \in unregistered : d < c


====
